---------------------------- MODULE Spec2Model ----------------------------
(***************************************************************************)
(* A model of the CHIP-8 execution core of src/src/main.rs: the CPU        *)
(* struct, the fetch/decode/dispatch loop CPU::run and one operator per    *)
(* instruction handler.  One iteration of the loop is two steps: Fetch     *)
(* (read_opcode and the pre-increment of position_in_memory) and the       *)
(* dispatch of the fetched opcode to its handler.                          *)
(***************************************************************************)
EXTENDS Integers, Naturals, Sequences, FiniteSets, TLC

VARIABLES
    registers,           \* CPU.registers: [u8; 16]
    position_in_memory,  \* CPU.position_in_memory: usize
    memory,              \* CPU.memory: [u8; 0x1000]
    stack,               \* CPU.stack: [u16; 16]
    stack_pointer,       \* CPU.stack_pointer: usize
    opcode,              \* the local `opcode` of CPU::run
    control,             \* where run is: "fetch", "dispatch", "returned", "panicked"
    panic_msg,           \* the message of the panic that ended run, or "none"
    overflow_checks,     \* the build's integer-overflow checks (on in debug, off in release)
    instr_addr,          \* history: the address the current opcode was fetched from
    calls,               \* history: the number of CALLs that completed
    rets,                \* history: the number of RETURNs that completed
    frames               \* history: the CALLs not yet returned from, oldest first, each with
                         \* the address of the CALL and the stack_pointer it found

cpu == <<registers, position_in_memory, memory, stack, stack_pointer>>
history == <<instr_addr, calls, rets, frames>>
vars == <<registers, position_in_memory, memory, stack, stack_pointer, opcode,
          control, panic_msg, overflow_checks, instr_addr, calls, rets, frames>>

---------------------------------------------------------------------------
(* Sizes of the CPU's arrays. *)
NumRegisters == 16
MemorySize == 4096
StackLen == 16

(* The model stops a run after this many completed CALLs. *)
MaxCalls == 19

---------------------------------------------------------------------------
(* Machine arithmetic. *)

RECURSIVE BitAnd(_, _)
BitAnd(a, b) ==
    IF a = 0 \/ b = 0 THEN 0
    ELSE (IF a % 2 = 1 /\ b % 2 = 1 THEN 1 ELSE 0) + 2 * BitAnd(a \div 2, b \div 2)

RECURSIVE BitOr(_, _)
BitOr(a, b) ==
    IF a = 0 THEN b
    ELSE IF b = 0 THEN a
    ELSE (IF a % 2 = 1 \/ b % 2 = 1 THEN 1 ELSE 0) + 2 * BitOr(a \div 2, b \div 2)

RECURSIVE BitXor(_, _)
BitXor(a, b) ==
    IF a = 0 THEN b
    ELSE IF b = 0 THEN a
    ELSE (IF a % 2 # b % 2 THEN 1 ELSE 0) + 2 * BitXor(a \div 2, b \div 2)

RECURSIVE Pow2(_)
Pow2(n) == IF n = 0 THEN 1 ELSE 2 * Pow2(n - 1)

(* `a << n` and `a >> n` on a u16. *)
Shl16(a, n) == (a * Pow2(n)) % 65536
Shr16(a, n) == a \div Pow2(n)

(* `v as u8` and `v as u16`. *)
AsU8(v) == v % 256
AsU16(v) == v % 65536

(* Fault variant: a sum of exactly 255 reported as an overflow. *)
OverflowingAddOffByOne(a, b) == <<(a + b) % 256, a + b >= 255>>

(* u8::overflowing_add: the wrapped sum and whether it overflowed. *)
OverflowingAdd(a, b) == <<(a + b) % 256, a + b > 255>>

(* The value `a + b` and `a - b` leave in a u8 when the operation does not panic. *)
WrappedAdd(a, b) == (a + b) % 256

(* Fault variant: the operands of the subtraction swapped. *)
WrappedSubSwapped(a, b) == (b - a + 256) % 256

WrappedSub(a, b) == (a - b + 256) % 256

(* Rust's slice index check: `array[i]` panics unless i < array.len(). *)
IndexInBounds(i, len) == i >= 0 /\ i < len

---------------------------------------------------------------------------
(* CPU::read_opcode and the decoding of CPU::run. *)

(* Fault variant: the two bytes combined little-endian. *)
ReadOpcodeLittleEndian ==
    LET p == position_in_memory
        op_byte1 == memory[p]
        op_byte2 == memory[p + 1]
    IN  BitOr(Shl16(op_byte2, 8), op_byte1)

ReadOpcode ==
    LET p == position_in_memory
        op_byte1 == memory[p]
        op_byte2 == memory[p + 1]
    IN  BitOr(Shl16(op_byte1, 8), op_byte2)

X(op) == AsU8(Shr16(BitAnd(op, 3840), 8))     \* (opcode & 0x0F00) >> 8
Y(op) == AsU8(Shr16(BitAnd(op, 240), 4))      \* (opcode & 0x00F0) >> 4
KK(op) == AsU8(BitAnd(op, 255))               \* opcode & 0x00FF
OpMinor(op) == AsU8(BitAnd(op, 15))           \* opcode & 0x000F
(* Fault variant: the whole opcode taken as the address operand. *)
AddrUnmasked(op) == op

Addr(op) == BitAnd(op, 4095)                  \* opcode & 0x0FFF

---------------------------------------------------------------------------
(* How a handler ends: back to the loop, or in a panic. *)

Continue == control' = "fetch" /\ panic_msg' = panic_msg
Panic(msg) == control' = "panicked" /\ panic_msg' = msg

---------------------------------------------------------------------------
(* The instruction handlers. *)

(* Fault variant: the return address is read before stack_pointer is lowered. *)
RetHandlerStaleSlot ==
    IF stack_pointer = 0
    THEN /\ Panic("Stack underflow")
         /\ UNCHANGED <<stack_pointer, position_in_memory>>
    ELSE /\ position_in_memory' = stack[stack_pointer % StackLen]
         /\ stack_pointer' = stack_pointer - 1
         /\ Continue

(* Fault variant: a RETURN on an empty stack is ignored. *)
RetHandlerLenient ==
    IF stack_pointer = 0
    THEN /\ Continue
         /\ UNCHANGED <<stack_pointer, position_in_memory>>
    ELSE /\ stack_pointer' = stack_pointer - 1
         /\ position_in_memory' = stack[stack_pointer - 1]
         /\ Continue

(* Fault variant: the return address is taken from the top slot, which stays occupied. *)
RetHandlerNoPop ==
    IF stack_pointer = 0
    THEN /\ Panic("Stack underflow")
         /\ UNCHANGED <<stack_pointer, position_in_memory>>
    ELSE /\ stack_pointer' = stack_pointer
         /\ position_in_memory' = stack[stack_pointer - 1]
         /\ Continue

RetHandler ==
    IF stack_pointer = 0
    THEN /\ Panic("Stack underflow")
         /\ UNCHANGED <<stack_pointer, position_in_memory>>
    ELSE /\ stack_pointer' = stack_pointer - 1
         /\ position_in_memory' = stack[stack_pointer - 1]
         /\ Continue

Ret == RetHandler /\ UNCHANGED <<registers, memory, stack>>

Jmp(addr) ==
    /\ position_in_memory' = addr
    /\ Continue
    /\ UNCHANGED <<registers, memory, stack, stack_pointer>>

(* The explicit check of CPU::call, `sp > stack.len()`. *)
CallOverflowCheck(sp) == sp > StackLen

(* Fault variant: the store is not index-checked. *)
StackIndexUnchecked(sp) == TRUE

(* The index check of the store `stack[sp] = ..`. *)
StackIndexInBounds(sp) == IndexInBounds(sp, StackLen)

(* Fault variant: stack_pointer is raised before the slot is chosen, as the
   doc comment of call words it. *)
CallHandlerPreIncrement(addr) ==
    LET sp == stack_pointer
    IN  IF CallOverflowCheck(sp)
        THEN /\ Panic("Stack overflow!")
             /\ UNCHANGED <<stack, stack_pointer, position_in_memory>>
        ELSE IF ~StackIndexInBounds(sp + 1)
        THEN /\ Panic("index out of bounds")
             /\ UNCHANGED <<stack, stack_pointer, position_in_memory>>
        ELSE /\ stack' = [stack EXCEPT ![sp + 1] = AsU16(position_in_memory)]
             /\ stack_pointer' = stack_pointer + 1
             /\ position_in_memory' = addr
             /\ Continue

CallHandler(addr) ==
    LET sp == stack_pointer
    IN  IF CallOverflowCheck(sp)
        THEN /\ Panic("Stack overflow!")
             /\ UNCHANGED <<stack, stack_pointer, position_in_memory>>
        ELSE IF ~StackIndexInBounds(sp)
        THEN /\ Panic("index out of bounds")
             /\ UNCHANGED <<stack, stack_pointer, position_in_memory>>
        ELSE /\ stack' = [stack EXCEPT ![sp] = AsU16(position_in_memory)]
             /\ stack_pointer' = stack_pointer + 1
             /\ position_in_memory' = addr
             /\ Continue

Call(addr) == CallHandler(addr) /\ UNCHANGED <<registers, memory>>

Se(vx, kk) ==
    /\ position_in_memory' =
           IF vx = kk THEN position_in_memory + 2 ELSE position_in_memory
    /\ Continue
    /\ UNCHANGED <<registers, memory, stack, stack_pointer>>

Sne(vx, kk) ==
    /\ position_in_memory' =
           IF vx # kk THEN position_in_memory + 2 ELSE position_in_memory
    /\ Continue
    /\ UNCHANGED <<registers, memory, stack, stack_pointer>>

(* Fault variant: the value is stored in memory[vx], not in registers[vx]. *)
LdIntoMemory(vx, kk) ==
    /\ memory' = [memory EXCEPT ![vx] = kk]
    /\ Continue
    /\ UNCHANGED <<position_in_memory, registers, stack, stack_pointer>>

Ld(vx, kk) ==
    /\ registers' = [registers EXCEPT ![vx] = kk]
    /\ Continue
    /\ UNCHANGED <<position_in_memory, memory, stack, stack_pointer>>

(* `self.registers[vx] += kk`: panics on overflow when the build checks it. *)
Add(vx, kk) ==
    /\ IF registers[vx] + kk > 255 /\ overflow_checks
       THEN Panic("attempt to add with overflow") /\ UNCHANGED registers
       ELSE registers' = [registers EXCEPT ![vx] = WrappedAdd(registers[vx], kk)]
            /\ Continue
    /\ UNCHANGED <<position_in_memory, memory, stack, stack_pointer>>

OrXY(x, y) ==
    LET x_ == registers[x]
        y_ == registers[y]
    IN  /\ registers' = [registers EXCEPT ![x] = BitOr(x_, y_)]
        /\ Continue
        /\ UNCHANGED <<position_in_memory, memory, stack, stack_pointer>>

AndXY(x, y) ==
    LET x_ == registers[x]
        y_ == registers[y]
    IN  /\ registers' = [registers EXCEPT ![x] = BitAnd(x_, y_)]
        /\ Continue
        /\ UNCHANGED <<position_in_memory, memory, stack, stack_pointer>>

XorXY(x, y) ==
    LET x_ == registers[x]
        y_ == registers[y]
    IN  /\ registers' = [registers EXCEPT ![x] = BitXor(x_, y_)]
        /\ Continue
        /\ UNCHANGED <<position_in_memory, memory, stack, stack_pointer>>

(* Fault variant: the sum stored in Vy instead of Vx. *)
AddXYRegistersIntoY(x, y) ==
    LET arg1 == registers[x]
        arg2 == registers[y]
        res == OverflowingAdd(arg1, arg2)
        stored == [registers EXCEPT ![y] = res[1]]
    IN  [stored EXCEPT ![15] = IF res[2] THEN 1 ELSE 0]

(* The registers after add_xy: the sum is stored first, then the flag. *)
AddXYRegisters(x, y) ==
    LET arg1 == registers[x]
        arg2 == registers[y]
        res == OverflowingAdd(arg1, arg2)
        stored == [registers EXCEPT ![x] = res[1]]
    IN  [stored EXCEPT ![15] = IF res[2] THEN 1 ELSE 0]

AddXY(x, y) ==
    /\ registers' = AddXYRegisters(x, y)
    /\ Continue
    /\ UNCHANGED <<position_in_memory, memory, stack, stack_pointer>>

(* The flag written by sub_xy before it subtracts. *)
SubXYFlag(x_, y_) == IF x_ > y_ THEN 1 ELSE 0

(* sub_xy: the flag is stored first; `x_ - y_` panics on overflow when the
   build checks it, and wraps otherwise. *)
SubXY(x, y) ==
    LET x_ == registers[x]
        y_ == registers[y]
        flagged == [registers EXCEPT ![15] = SubXYFlag(x_, y_)]
    IN  /\ IF x_ < y_ /\ overflow_checks
           THEN registers' = flagged /\ Panic("attempt to subtract with overflow")
           ELSE registers' = [flagged EXCEPT ![x] = WrappedSub(x_, y_)] /\ Continue
        /\ UNCHANGED <<position_in_memory, memory, stack, stack_pointer>>

Todo ==
    /\ Panic("not yet implemented")
    /\ UNCHANGED cpu

---------------------------------------------------------------------------
(* CPU::run: the fetch and the arms of `match opcode`. *)

InRange(op, lo, hi) == lo <= op /\ op <= hi

(* Both bytes of the opcode can be indexed in memory. *)
FetchInBounds ==
    /\ IndexInBounds(position_in_memory, MemorySize)
    /\ IndexInBounds(position_in_memory + 1, MemorySize)

Fetch ==
    /\ control = "fetch"
    /\ FetchInBounds
    /\ opcode' = ReadOpcode
    /\ position_in_memory' = position_in_memory + 2
    /\ instr_addr' = position_in_memory
    /\ control' = "dispatch"
    /\ UNCHANGED <<registers, memory, stack, stack_pointer, panic_msg,
                   overflow_checks, calls, rets, frames>>

(* Fault variant: a position past the end of memory wraps around to 0. *)
FetchFaultWraps ==
    /\ control = "fetch"
    /\ ~FetchInBounds
    /\ position_in_memory' = 0
    /\ Continue
    /\ UNCHANGED <<registers, memory, stack, stack_pointer, opcode, overflow_checks, history>>

FetchFault ==
    /\ control = "fetch"
    /\ ~FetchInBounds
    /\ Panic("index out of bounds")
    /\ UNCHANGED <<cpu, opcode, overflow_checks, history>>

(* What every arm leaves alone. *)
ArmFrame == UNCHANGED <<opcode, overflow_checks, instr_addr>>

(* Fault variant: CLEAR (0x00E0) also taken as the end of the program. *)
RunHaltOrClear ==
    /\ control = "dispatch"
    /\ opcode \in {0, 224}
    /\ control' = "returned"
    /\ UNCHANGED <<cpu, panic_msg, calls, rets, frames>>
    /\ ArmFrame

RunHalt ==
    /\ control = "dispatch"
    /\ opcode = 0
    /\ control' = "returned"
    /\ UNCHANGED <<cpu, panic_msg, calls, rets, frames>>
    /\ ArmFrame

RunClear ==
    /\ control = "dispatch"
    /\ opcode = 224                                   \* 0x00E0
    /\ Continue
    /\ UNCHANGED <<cpu, calls, rets, frames>>
    /\ ArmFrame

RunRet ==
    /\ control = "dispatch"
    /\ opcode = 238                                   \* 0x00EE
    /\ Ret
    /\ rets' = IF control' = "fetch" THEN rets + 1 ELSE rets
    /\ frames' = IF control' = "fetch" /\ Len(frames) > 0
                 THEN SubSeq(frames, 1, Len(frames) - 1)
                 ELSE frames
    /\ UNCHANGED calls
    /\ ArmFrame

RunJmp ==
    /\ control = "dispatch"
    /\ InRange(opcode, 4096, 8191)                    \* 0x1000..=0x1FFF
    /\ Jmp(Addr(opcode))
    /\ UNCHANGED <<calls, rets, frames>>
    /\ ArmFrame

RunCall ==
    /\ control = "dispatch"
    /\ InRange(opcode, 8192, 12287)                   \* 0x2000..=0x2FFF
    /\ calls < MaxCalls
    /\ Call(Addr(opcode))
    /\ calls' = IF control' = "fetch" THEN calls + 1 ELSE calls
    /\ frames' = IF control' = "fetch"
                 THEN Append(frames, [addr |-> instr_addr, sp |-> stack_pointer])
                 ELSE frames
    /\ UNCHANGED rets
    /\ ArmFrame

RunSe ==
    /\ control = "dispatch"
    /\ InRange(opcode, 12288, 16383)                  \* 0x3000..=0x3FFF
    /\ Se(X(opcode), KK(opcode))
    /\ UNCHANGED <<calls, rets, frames>>
    /\ ArmFrame

RunSne ==
    /\ control = "dispatch"
    /\ InRange(opcode, 16384, 20479)                  \* 0x4000..=0x4FFF
    /\ Sne(X(opcode), KK(opcode))
    /\ UNCHANGED <<calls, rets, frames>>
    /\ ArmFrame

RunSeXY ==
    /\ control = "dispatch"
    /\ InRange(opcode, 20480, 24575)                  \* 0x5000..=0x5FFF
    /\ Se(X(opcode), Y(opcode))
    /\ UNCHANGED <<calls, rets, frames>>
    /\ ArmFrame

RunLd ==
    /\ control = "dispatch"
    /\ InRange(opcode, 24576, 28671)                  \* 0x6000..=0x6FFF
    /\ Ld(X(opcode), KK(opcode))
    /\ UNCHANGED <<calls, rets, frames>>
    /\ ArmFrame

RunAdd ==
    /\ control = "dispatch"
    /\ InRange(opcode, 28672, 32767)                  \* 0x7000..=0x7FFF
    /\ Add(X(opcode), KK(opcode))
    /\ UNCHANGED <<calls, rets, frames>>
    /\ ArmFrame

(* The arms of the inner `match op_minor`. *)
Run8(minor) ==
    /\ control = "dispatch"
    /\ InRange(opcode, 32768, 36863)                  \* 0x8000..=0x8FFF
    /\ OpMinor(opcode) = minor
    /\ UNCHANGED <<calls, rets, frames>>
    /\ ArmFrame

RunLdXY == Run8(0) /\ Ld(X(opcode), registers[Y(opcode)])
RunOrXY == Run8(1) /\ OrXY(X(opcode), Y(opcode))
RunAndXY == Run8(2) /\ AndXY(X(opcode), Y(opcode))
RunXorXY == Run8(3) /\ XorXY(X(opcode), Y(opcode))
RunAddXY == Run8(4) /\ AddXY(X(opcode), Y(opcode))
RunSubXY == Run8(5) /\ SubXY(X(opcode), Y(opcode))

(* The two `_ => todo!(..)` arms. *)
Unmatched(op) ==
    \/ InRange(op, 1, 4095) /\ op # 224 /\ op # 238
    \/ InRange(op, 32768, 36863) /\ OpMinor(op) > 5
    \/ op > 36863

RunTodo ==
    /\ control = "dispatch"
    /\ Unmatched(opcode)
    /\ Todo
    /\ UNCHANGED <<calls, rets, frames>>
    /\ ArmFrame

---------------------------------------------------------------------------
(* The programs and register contents the caller loads before run.  A      *)
(* program is a sequence of <<address, 16-bit word>>; every other byte of   *)
(* memory keeps the 0 of construction.                                      *)

(* mem[a] = hi; mem[a + 1] = lo for each word of the program. *)
Load(prog) ==
    [a \in 0..(MemorySize - 1) |->
        IF \E i \in 1..Len(prog) : prog[i][1] = a
        THEN (CHOOSE w \in {prog[i][2] : i \in {j \in 1..Len(prog) : prog[j][1] = a}} : TRUE)
                 \div 256
        ELSE IF \E i \in 1..Len(prog) : prog[i][1] + 1 = a
        THEN (CHOOSE w \in {prog[i][2] : i \in {j \in 1..Len(prog) : prog[j][1] + 1 = a}} : TRUE)
                 % 256
        ELSE 0]

(* The program of main: two calls of the subroutine at 0x100, a subtraction, HALT. *)
MainProgram ==
    << <<0, 8448>>,        \* 0x000: 0x2100  CALL 0x100
       <<2, 8448>>,        \* 0x002: 0x2100  CALL 0x100
       <<4, 32805>>,       \* 0x004: 0x8025  SUB V2 from V0
       <<6, 0>>,           \* 0x006: 0x0000  HALT
       <<256, 32788>>,     \* 0x100: 0x8014  ADD V1 to V0
       <<258, 32788>>,     \* 0x102: 0x8014  ADD V1 to V0
       <<260, 238>> >>     \* 0x104: 0x00EE  RETURN

MainRegisters ==
    [r \in 0..(NumRegisters - 1) |->
        IF r = 0 THEN 5 ELSE IF r = 1 THEN 10 ELSE IF r = 2 THEN 7 ELSE 0]

(* The same subroutine called twice, without the subtraction. *)
SecondProgram ==
    << <<0, 8448>>, <<2, 8448>>, <<4, 0>>,
       <<256, 32788>>, <<258, 32788>>, <<260, 238>> >>

SecondRegisters ==
    [r \in 0..(NumRegisters - 1) |-> IF r = 0 THEN 5 ELSE IF r = 1 THEN 10 ELSE 0]

(* Calls nested three deep, each frame doing some work before it returns. *)
NestedProgram ==
    << <<0, 8448>>,        \* 0x000: CALL 0x100
       <<2, 28673>>,       \* 0x002: ADD-IMM V0, 1
       <<4, 0>>,           \* 0x004: HALT
       <<256, 8704>>,      \* 0x100: CALL 0x200
       <<258, 8704>>,      \* 0x102: CALL 0x200
       <<260, 238>>,       \* 0x104: RETURN
       <<512, 8961>>,      \* 0x200: CALL 0x301 (an odd address)
       <<514, 238>>,       \* 0x202: RETURN
       <<769, 24837>>,     \* 0x301: LOAD-IMM V1, 5
       <<771, 238>> >>     \* 0x303: RETURN

(* Sixteen nested calls, the stack exactly full, then sixteen returns. *)
DeepProgram ==
    [i \in 1..(2 * StackLen + 1) |->
        IF i <= StackLen
        THEN <<32 * (i - 1), 8192 + 32 * i>>             \* at 32(i-1): CALL 32i
        ELSE IF i = StackLen + 1 THEN <<2, 0>>           \* HALT after the first CALL
        ELSE IF i = 2 * StackLen + 1 THEN <<32 * StackLen, 238>>
        ELSE <<32 * (i - StackLen - 1) + 2, 238>>]       \* RETURN after each inner CALL

(* A word at address 0 and nothing else. *)
OneWord(w) == << <<0, w>> >>

(* Word w at address p, reached by a JUMP from address 0 when p is not 0. *)
Placed(p, w) == IF p = 0 THEN OneWord(w) ELSE << <<0, 4096 + p>>, <<p, w>> >>

(* Register indices, register values and immediates the instructions are tried on. *)
TestIndices == {0, 1, 15}
TestValues == {0, 5, 255}
TestImmediates == {0, 1, 5, 255}
TestFlags == {0, 7}

(* One instruction of each opcode family, over the test indices and immediates. *)
TestWords ==
    {4096 * f + 256 * x + kk : f \in {3, 4, 6, 7}, x \in TestIndices, kk \in TestImmediates}
    \cup {4096 * f + 256 * x + 16 * y + n :
              f \in {5}, x \in TestIndices, y \in TestIndices, n \in {0, 1}}
    \cup {4096 * f + 256 * x + 16 * y + n :
              f \in {8}, x \in TestIndices, y \in TestIndices, n \in 0..6}

(* Words that are whole programs at address 0. *)
SoloWords ==
    { 0,        \* HALT
      224,      \* 0x00E0 CLEAR
      238,      \* 0x00EE RETURN with an empty stack
      4096,     \* 0x1000 JUMP to itself
      8471,     \* 0x2117 CALL an odd address
      8192,     \* 0x2000 CALL itself: unbounded recursion
      8191,     \* 0x1FFF JUMP 0xFFF: the opcode would straddle the end of memory
      1, 225, 4095,               \* 0x0001, 0x00E1, 0x0FFF
      32775, 36863,               \* 0x8007, 0x8FFF
      36864, 41251, 65535 }       \* 0x9000, 0xA123, 0xFFFF

(* Addresses other than 0 an instruction is tried at: an odd one, and the last
   one whose two bytes are inside memory. *)
TestPlacements == {513, MemorySize - 2}

(* The instructions tried at those addresses: V0 and V1 of each family. *)
PlacedWords ==
    {w \in TestWords : (w \div 256) % 16 = 0 /\ (w \div 4096 \in {5, 8} => (w \div 16) % 16 = 1)}
    \cup {224, 238, 8192, 36864}

(* CALL/RETURN in a loop that never ends. *)
CallLoopProgram == << <<0, 8448>>, <<2, 4096>>, <<256, 238>> >>

Programs ==
    {MainProgram, SecondProgram, NestedProgram, DeepProgram, CallLoopProgram}
    \cup {OneWord(w) : w \in SoloWords}
    \cup {OneWord(w) : w \in TestWords}
    \cup {Placed(p, w) : p \in TestPlacements, w \in PlacedWords}

TestRegisters(a, b, f) ==
    [r \in 0..(NumRegisters - 1) |->
        IF r = 0 THEN a ELSE IF r = 1 THEN b ELSE IF r = 15 THEN f ELSE 0]

RegisterFiles ==
    {MainRegisters, SecondRegisters}
    \cup {TestRegisters(a, b, f) : a \in TestValues, b \in TestValues, f \in TestFlags}

---------------------------------------------------------------------------
(* main: the CPU is constructed zeroed, then registers and memory are      *)
(* loaded, and run starts at position 0 with an empty stack.               *)
Init ==
    /\ \E prog \in Programs : memory = Load(prog)
    /\ registers \in RegisterFiles
    /\ position_in_memory = 0
    /\ stack = [i \in 0..(StackLen - 1) |-> 0]
    /\ stack_pointer = 0
    /\ opcode = 0
    /\ control = "fetch"
    /\ panic_msg = "none"
    /\ overflow_checks \in BOOLEAN
    /\ instr_addr = 0
    /\ calls = 0
    /\ rets = 0
    /\ frames = <<>>

Next ==
    \/ Fetch
    \/ FetchFault
    \/ RunHalt
    \/ RunClear
    \/ RunRet
    \/ RunJmp
    \/ RunCall
    \/ RunSe
    \/ RunSne
    \/ RunSeXY
    \/ RunLd
    \/ RunAdd
    \/ RunLdXY
    \/ RunOrXY
    \/ RunAndXY
    \/ RunXorXY
    \/ RunAddXY
    \/ RunSubXY
    \/ RunTodo

Spec == Init /\ [][Next]_vars

(* run is a loop with no suspension point: while it has a step, it takes it. *)
FairSpec == Spec /\ WF_vars(Next)

---------------------------------------------------------------------------
(* The fields of an opcode, by arithmetic. *)
Family(op) == op \div 4096
FieldX(op) == (op \div 256) % 16
FieldY(op) == (op \div 16) % 16
FieldKK(op) == op % 256
FieldN(op) == op % 16
FieldNNN(op) == op % 4096

(* memory holds exactly this program. *)
Holds(prog) ==
    /\ \A i \in 1..Len(prog) :
          /\ memory[prog[i][1]] = prog[i][2] \div 256
          /\ memory[prog[i][1] + 1] = prog[i][2] % 256
    /\ memory = Load(prog)

Dispatching == control = "dispatch"
Executed == control = "fetch" \/ control = "returned"
IsCall(op) == Family(op) = 2
IsRet(op) == op = 238

---------------------------------------------------------------------------
(* C1: from the start state of main (V0=5, V1=10, V2=7, the program of    *)
(* main in memory, position 0, empty stack) run eventually returns through *)
(* HALT, without a panic, and V0 is then 38.                               *)
MainStart ==
    /\ Holds(MainProgram)
    /\ registers = MainRegisters
    /\ position_in_memory = 0
    /\ stack_pointer = 0
    /\ control = "fetch"

C1_MainScenario ==
    MainStart ~> (control = "returned" /\ panic_msg = "none" /\ registers[0] = 38)

C1_Witness ==
    /\ control = "returned"
    /\ Holds(MainProgram)
    /\ registers = [MainRegisters EXCEPT ![0] = 38, ![15] = 1]
    /\ calls = 2 /\ rets = 2
    /\ instr_addr = 6

(* C2: a RETURN that completes pops the frame of the latest CALL not yet   *)
(* returned from: it puts position_in_memory two past the address of that  *)
(* CALL and stack_pointer back to what that CALL found.                    *)
C2_CallReturnRoundTrip ==
    [][(Dispatching /\ IsRet(opcode) /\ control' = "fetch")
          => /\ Len(frames) > 0
             /\ position_in_memory' = frames[Len(frames)].addr + 2
             /\ stack_pointer' = frames[Len(frames)].sp]_vars

(* A return from an inner frame to an odd address, an outer frame still open,
   after an earlier call/return pair. *)
C2_Witness ==
    /\ control = "fetch"
    /\ IsRet(opcode)
    /\ rets >= 2
    /\ Len(frames) >= 1
    /\ stack_pointer = Len(frames)
    /\ position_in_memory = 260

(* C3: a CALL dispatched with stack_pointer = 16 ends run in a panic,      *)
(* writes no stack slot and leaves stack_pointer at 16.                    *)
C3_StackOverflow ==
    [][(Dispatching /\ IsCall(opcode) /\ stack_pointer = StackLen)
          => /\ control' = "panicked"
             /\ stack' = stack
             /\ stack_pointer' = StackLen]_vars

C3_Witness ==
    /\ control = "panicked"
    /\ IsCall(opcode)
    /\ stack_pointer = StackLen
    /\ calls = StackLen /\ rets = 0

(* C4: a RETURN dispatched with stack_pointer = 0 ends run in a panic,     *)
(* leaves stack_pointer at 0 and position_in_memory where the fetch left   *)
(* it.                                                                     *)
C4_StackUnderflow ==
    [][(Dispatching /\ IsRet(opcode) /\ stack_pointer = 0)
          => /\ control' = "panicked"
             /\ stack_pointer' = 0
             /\ position_in_memory' = position_in_memory
             /\ position_in_memory' = instr_addr + 2]_vars

C4_Witness ==
    /\ control = "panicked"
    /\ panic_msg = "Stack underflow"
    /\ IsRet(opcode)
    /\ stack_pointer = 0

(* C5: stack_pointer is always within 0..16 and equals the number of CALLs *)
(* completed minus the number of RETURNs completed.                        *)
C5_StackPointerRange ==
    /\ stack_pointer \in 0..StackLen
    /\ stack_pointer = calls - rets

C5_Witness ==
    /\ calls > StackLen
    /\ rets >= StackLen
    /\ stack_pointer = 1

(* C6: SKIP-IF-EQUAL-IMM (0x3xkk) fetched at p leaves position_in_memory  *)
(* at p + 4 when the value of register Vx equals kk and at p + 2           *)
(* otherwise, and changes no register, stack slot or stack_pointer.        *)
C6_SkipIfEqualImm ==
    [][(Dispatching /\ Family(opcode) = 3)
          => /\ position_in_memory' =
                    instr_addr
                    + (IF registers[FieldX(opcode)] = FieldKK(opcode) THEN 4 ELSE 2)
             /\ UNCHANGED <<registers, stack, stack_pointer>>]_vars

(* C7: ADD-REG (0x8xy4) with x # 0xF never panics, leaves (Vx + Vy) mod    *)
(* 256 in Vx, and leaves 1 in VF when Vx + Vy > 255 and 0 otherwise.       *)
C7_AddReg ==
    [][(Dispatching /\ Family(opcode) = 8 /\ FieldN(opcode) = 4 /\ FieldX(opcode) # 15)
          => LET x == FieldX(opcode)
                 sum == registers[x] + registers[FieldY(opcode)]
             IN  /\ control' = "fetch"
                 /\ registers'[x] = sum % 256
                 /\ registers'[15] = IF sum > 255 THEN 1 ELSE 0]_vars

(* An ADD-REG whose sum 255 + 5 wrapped to 4 and set the flag. *)
C7_Witness ==
    /\ control = "fetch"
    /\ Family(opcode) = 8 /\ FieldN(opcode) = 4 /\ FieldX(opcode) # 15
    /\ registers[FieldX(opcode)] = 4
    /\ registers[15] = 1

(* C8: SUB-REG (0x8xy5) with x # 0xF never panics, leaves 1 in VF when     *)
(* Vx > Vy and 0 otherwise, and leaves (Vx - Vy) mod 256 in Vx, also when  *)
(* Vx < Vy.                                                                *)
C8_SubReg ==
    [][(Dispatching /\ Family(opcode) = 8 /\ FieldN(opcode) = 5 /\ FieldX(opcode) # 15)
          => LET x == FieldX(opcode)
                 vx == registers[x]
                 vy == registers[FieldY(opcode)]
             IN  /\ control' = "fetch"
                 /\ registers'[15] = (IF vx > vy THEN 1 ELSE 0)
                 /\ registers'[x] = (vx - vy + 256) % 256]_vars

(* C9: a fetch at p in 0..4094 succeeds, yields the opcode                 *)
(* memory[p] * 256 + memory[p + 1] and moves position_in_memory to p + 2   *)
(* before the opcode is dispatched; so a CALL pushes p + 2 and a skip that *)
(* is taken ends at p + 4.                                                 *)
C9_Fetch ==
    [][/\ (control = "fetch" /\ position_in_memory \in 0..(MemorySize - 2))
             => /\ control' = "dispatch"
                /\ opcode' = memory[position_in_memory] * 256
                                + memory[position_in_memory + 1]
                /\ position_in_memory' = position_in_memory + 2
                /\ instr_addr' = position_in_memory
       /\ Dispatching => position_in_memory = instr_addr + 2
       /\ (Dispatching /\ IsCall(opcode) /\ control' = "fetch")
             => stack'[stack_pointer] = instr_addr + 2
       /\ (Dispatching /\ Family(opcode) \in {3, 4, 5}
              /\ position_in_memory' # position_in_memory)
             => position_in_memory' = instr_addr + 4]_vars

(* An opcode with two different non-zero bytes, fetched at an odd address. *)
C9_Witness ==
    /\ Dispatching
    /\ instr_addr = 513
    /\ memory[513] # 0 /\ memory[514] # 0 /\ memory[513] # memory[514]
    /\ opcode = memory[513] * 256 + memory[514]
    /\ position_in_memory = 515

(* C10: an opcode outside the dispatch table (0x0000, 0x00E0, 0x00EE,      *)
(* 0x1nnn, 0x2nnn, 0x3xkk, 0x4xkk, 0x5xy0, 0x6xkk, 0x7xkk,                 *)
(* 0x8xy0..0x8xy5) ends run in a panic and changes no register, stack slot *)
(* or stack_pointer.                                                       *)
InDispatchTable(op) ==
    \/ op \in {0, 224, 238}
    \/ Family(op) \in {1, 2, 3, 4, 6, 7}
    \/ Family(op) = 5 /\ FieldN(op) = 0
    \/ Family(op) = 8 /\ FieldN(op) <= 5

C10_UnsupportedOpcode ==
    [][(Dispatching /\ ~InDispatchTable(opcode))
          => /\ control' = "panicked"
             /\ UNCHANGED <<registers, stack, stack_pointer>>]_vars

(* C11: whenever run is about to fetch, position_in_memory is within      *)
(* 0..4094.                                                                *)
C11_FetchInsideMemory ==
    control = "fetch" => position_in_memory \in 0..(MemorySize - 2)

(* C11 as it holds: whenever run is about to fetch, position_in_memory is  *)
(* within 0..4098, and a fetch that yields an opcode was made at a         *)
(* position within 0..4094.                                                *)
C11_FetchInsideMemoryAmended ==
    [][/\ control = "fetch" => position_in_memory \in 0..(MemorySize + 2)
       /\ (control = "fetch" /\ control' = "dispatch")
             => position_in_memory \in 0..(MemorySize - 2)]_vars

(* A skip taken at 4094 leaves run about to fetch at 4098. *)
C11_Witness ==
    /\ control = "fetch"
    /\ Family(opcode) \in {3, 4, 5}
    /\ instr_addr = MemorySize - 2
    /\ position_in_memory = MemorySize + 2

(* C12: from the start state of the second scenario (V0=5, V1=10, two      *)
(* calls of the subroutine at 0x100, HALT at 0x004) run eventually returns *)
(* through HALT with V0 = 45, V1 = 10, VF = 0 and stack_pointer = 0.       *)
SecondStart ==
    /\ Holds(SecondProgram)
    /\ registers = SecondRegisters
    /\ position_in_memory = 0
    /\ stack_pointer = 0
    /\ control = "fetch"

C12_SecondScenario ==
    SecondStart ~> (/\ control = "returned"
                    /\ panic_msg = "none"
                    /\ registers[0] = 45
                    /\ registers[1] = 10
                    /\ registers[15] = 0
                    /\ stack_pointer = 0)

C12_Witness ==
    /\ control = "returned"
    /\ Holds(SecondProgram)
    /\ registers = [SecondRegisters EXCEPT ![0] = 45]
    /\ stack_pointer = 0
    /\ calls = 2 /\ rets = 2
    /\ instr_addr = 4

(* C13: SKIP-IF-EQUAL-REG (0x5xy0) fetched at p leaves position_in_memory  *)
(* at p + 4 when the values of Vx and Vy are equal and at p + 2 otherwise. *)
C13_SkipIfEqualReg ==
    [][(Dispatching /\ Family(opcode) = 5 /\ FieldN(opcode) = 0)
          => position_in_memory' =
                 instr_addr
                 + (IF registers[FieldX(opcode)] = registers[FieldY(opcode)]
                    THEN 4 ELSE 2)]_vars

(* C14: SKIP-IF-NOT-EQUAL-IMM (0x4xkk) fetched at p leaves                 *)
(* position_in_memory at p + 4 when the value of Vx differs from kk and at *)
(* p + 2 when it equals kk.                                                *)
C14_SkipIfNotEqualImm ==
    [][(Dispatching /\ Family(opcode) = 4)
          => position_in_memory' =
                 instr_addr
                 + (IF registers[FieldX(opcode)] # FieldKK(opcode) THEN 4 ELSE 2)]_vars

(* C15: after ADD-REG (0x8xy4) and SUB-REG (0x8xy5), for all x and y       *)
(* including 0xF, VF holds the outcome of the instruction computed from    *)
(* the values before it: for ADD-REG 1 when Vx + Vy > 255 and 0 otherwise, *)
(* for SUB-REG 1 when Vx > Vy and 0 otherwise.                             *)
C15_FlagRegister ==
    [][(Dispatching /\ Family(opcode) = 8 /\ FieldN(opcode) \in {4, 5})
          => LET vx == registers[FieldX(opcode)]
                 vy == registers[FieldY(opcode)]
             IN  registers'[15] =
                     IF FieldN(opcode) = 4
                     THEN (IF vx + vy > 255 THEN 1 ELSE 0)
                     ELSE (IF vx > vy THEN 1 ELSE 0)]_vars

(* C16: ADD-IMM (0x7xkk) never panics, leaves (Vx + kk) mod 256 in Vx and  *)
(* changes no other register.                                              *)
C16_AddImm ==
    [][(Dispatching /\ Family(opcode) = 7)
          => LET x == FieldX(opcode)
             IN  /\ control' = "fetch"
                 /\ registers'[x] = (registers[x] + FieldKK(opcode)) % 256
                 /\ \A r \in 0..(NumRegisters - 1) :
                        r # x => registers'[r] = registers[r]]_vars

(* C17: run returns only from the dispatch of opcode 0x0000; the fetch of  *)
(* that opcode at p and its dispatch leave registers, stack, stack_pointer *)
(* and memory as they were, and position_in_memory at p + 2.  A run that   *)
(* has neither returned nor panicked always has a next step, and the       *)
(* program 0x1000 at address 0 fetches and dispatches for ever.            *)
Ended == control = "returned" \/ control = "panicked"

(* The model, not the program, stops a run at its MaxCalls-th CALL. *)
AtCallLimit == Dispatching /\ IsCall(opcode) /\ calls >= MaxCalls

JumpToSelf == Holds(OneWord(4096))

C17_ReturnsOnlyByHalt ==
    /\ [][/\ (control' = "returned" /\ control # "returned")
                => /\ Dispatching
                   /\ opcode = 0
                   /\ memory[instr_addr] = 0 /\ memory[instr_addr + 1] = 0
                   /\ position_in_memory' = instr_addr + 2
                   /\ UNCHANGED <<registers, stack, stack_pointer, memory>>
          /\ (control = "fetch" /\ control' = "dispatch")
                => UNCHANGED <<registers, stack, stack_pointer, memory>>
          /\ ~Ended]_vars
    /\ []((~Ended /\ ~AtCallLimit) => ENABLED Next)
    /\ (JumpToSelf => /\ [](~Ended)
                      /\ []<>(control = "dispatch" /\ opcode = 4096)
                      /\ []<>(control = "fetch" /\ position_in_memory = 0))

(* HALT reached at an odd address, after a JUMP. *)
C17_Witness ==
    /\ control = "returned"
    /\ opcode = 0
    /\ instr_addr = 515
    /\ position_in_memory = 517
    /\ registers[0] = 255

(* C18: a fetch attempted with position_in_memory > 4094 ends run in a     *)
(* panic; no opcode is dispatched, registers, stack and stack_pointer are  *)
(* unchanged and position_in_memory does not wrap around.                  *)
C18_WalkOffMemory ==
    [][(control = "fetch" /\ position_in_memory > MemorySize - 2)
          => /\ control' = "panicked"
             /\ UNCHANGED <<registers, stack, stack_pointer, memory,
                            position_in_memory, opcode, instr_addr>>]_vars

(* The fetch after JUMP 0xFFF: the second byte of the opcode is outside memory. *)
C18_Witness ==
    /\ control = "panicked"
    /\ panic_msg = "index out of bounds"
    /\ position_in_memory = MemorySize - 1
    /\ opcode = 8191

(* C19: a CALL that completes writes the stack slot stack_pointer pointed  *)
(* at and no other, a CALL that panics and a RETURN write none; CALL and   *)
(* RETURN change no register; every other instruction changes neither the *)
(* stack nor stack_pointer.                                                *)
C19_StackFrameEffects ==
    [][Dispatching
          => /\ (IsCall(opcode) /\ control' = "fetch")
                   => /\ stack'[stack_pointer] = instr_addr + 2
                      /\ \A i \in 0..(StackLen - 1) :
                             i # stack_pointer => stack'[i] = stack[i]
                      /\ stack_pointer' = stack_pointer + 1
             /\ (IsCall(opcode) /\ control' = "panicked")
                   => UNCHANGED <<stack, stack_pointer>>
             /\ IsRet(opcode) => stack' = stack
             /\ (IsCall(opcode) \/ IsRet(opcode)) => registers' = registers
             /\ ~(IsCall(opcode) \/ IsRet(opcode))
                   => UNCHANGED <<stack, stack_pointer>>]_vars

(* The second of two nested CALLs has filled slot 1 and left slot 0 alone. *)
C19_Witness ==
    /\ control = "fetch"
    /\ IsCall(opcode)
    /\ stack_pointer = 2
    /\ stack[0] = 2
    /\ stack[1] = 258
    /\ registers = MainRegisters

(* C20: no step of run changes a byte of memory, and the opcode being      *)
(* dispatched is always the one memory holds at the address it was fetched *)
(* from.                                                                   *)
C20_MemoryReadOnly ==
    [][/\ memory' = memory
       /\ Dispatching => opcode = memory[instr_addr] * 256 + memory[instr_addr + 1]]_vars

(* The CALL at address 0 of the endless loop, fetched for the third time. *)
C20_Witness ==
    /\ Dispatching
    /\ instr_addr = 0
    /\ opcode = 8448
    /\ calls = 2 /\ rets = 2
    /\ Holds(CallLoopProgram)

=============================================================================
